---- MODULE Spec2Model ----
(***************************************************************************)
(* A model of the telnet connection of package gote (src/telnet.go, lines  *)
(* 1-308): the background pump conn.process, the transport-reading task    *)
(* started by "go io.Copy(c.bIn, c.c)", and the application calling Read,  *)
(* Write and Close.                                                        *)
(*                                                                         *)
(* Granularity: one action is one statement of the source; every call on a *)
(* bytes.Buffer (Bytes, Next, Write, WriteTo, Read, ReadFrom's append) is  *)
(* one atomic step.  The source takes no lock, so the steps of the three   *)
(* activities interleave freely.                                           *)
(***************************************************************************)
EXTENDS Integers, Sequences, FiniteSets, TLC

\* ---------------------------------------------------------------- constants
\* Commands (src/telnet.go:14-30)
IAC == 255
DONT == 254
DO == 253
WONT == 252
WILL == 251
SB == 250
NOP == 241
SE == 240

\* Options (src/telnet.go:33-41)
BIN == 0
ECHO == 1
SGA == 3

\* ------------------------------------------------------------------- bounds
\* longest byte sequence the peer sends on the transport
MaxStream == 4
\* payload bytes the peer sends before a negotiation command
MaxPre == 1
\* sentinel bytes the peer sends after a negotiation command
MaxPost == 2
\* largest number of bytes one transport read hands to the copier
MaxChunk == 2
\* largest destination slice the application passes to Read
MaxDest == 2
\* number of Close calls the application makes
MaxCloses == 3
\* longest payload the application passes to Write
MaxPayload == 3
\* bytes the slice built by Write may grow to before memory is exhausted
MaxSliceLen == 6
\* largest spare capacity (cap - len) of the slice the application passes
\* to Write
MaxSpare == 1

\* The bytes of the streams of Spec: a payload byte (which is also an option),
\* the sentinel, a negotiation command and a command without a handler.
Core == {ECHO, IAC, DO, NOP}

Negotiation == {DONT, DO, WONT, WILL}

Options == {BIN, ECHO, SGA}

\* The command codes of lines 20-29, SE to SB: parseCommand has no case for
\* any of them.
Unhandled == SE..SB

\* The bytes of the payloads of SpecW
WriteBytes == {ECHO, DO, IAC}

SeqsUpTo(S, n) == UNION {[1..k -> S] : k \in 0..n}

Min(a, b) == IF a < b THEN a ELSE b

\* The streams of SpecNeg: some payload, one negotiation command with its
\* option, then some sentinel bytes.
NegStreams ==
  {pre \o <<IAC, c, o>> \o post :
     pre \in SeqsUpTo({ECHO}, MaxPre), c \in Negotiation, o \in Options,
     post \in SeqsUpTo({IAC}, MaxPost)}

\* The streams of SpecMix: some payload, an escaped sentinel, some payload,
\* and possibly a command after it.
MixStreams ==
  {pre \o <<IAC, IAC>> \o mid \o cmd :
     pre \in SeqsUpTo({ECHO}, MaxPre), mid \in SeqsUpTo({ECHO}, MaxPre),
     cmd \in {<<>>, <<IAC, DO, ECHO>>}}

\* The streams of SpecOrd: some payload, an escaped sentinel, the payload
\* bytes 253 1, then the command IAC DO <opt>.
OrdStreams ==
  {pre \o <<IAC, IAC, DO, ECHO>> \o <<IAC, DO, o>> :
     pre \in SeqsUpTo({ECHO}, MaxPre), o \in Options}

VARIABLES
  net,        \* bytes the peer has sent that the copier has not read yet
  tstate,     \* transport: "open", "eof" (peer closed), "failed", "closed",
              \* "none" (net.Dial failed, c.c is nil)
  rcvd,       \* history: every byte the copier has read from the transport
  created,    \* TRUE once process() has created bIn and bOut
  copier,     \* the io.Copy task: "notstarted", "running", "stopped",
              \* "panicked"
  bIn,        \* unread part of c.bIn
  bOut,       \* unread part of c.bOut
  fwd,        \* history: index in rcvd of every byte written to bOut
  delivered,  \* history: concatenation of the bytes returned by Read
  rd,         \* result of the latest Read: [n, err]
  sent,       \* history: the payload of every c.c.Write made by the pump
  werr,       \* TRUE once a c.c.Write of the pump has returned an error
  quit,       \* number of values in the channel c.quit (capacity 1)
  pc,         \* the statement of process() the pump is at
  si,         \* i of process(): bytes.IndexByte(b, IAC) of the scanned slice
  buf,        \* the slice handed to the command handler
  closes,     \* Close calls started so far
  cpc,        \* Close: "idle", "signal" (called), "closing" (signal sent)
  wP,         \* Write: the payload as the caller passed it
  wb,         \* Write: the slice b
  wi,         \* Write: the loop index i
  wpc,        \* Write: "idle", "loop", "returned", "oom"
  wrote,      \* history: the payload of every c.c.Write made by Write
  warr        \* Write: the caller's backing array, from b[0] to its capacity

vars == <<net, tstate, rcvd, created, copier, bIn, bOut, fwd, delivered, rd,
          sent, werr, quit, pc, si, buf, closes, cpc, wP, wb, wi, wpc, wrote,
          warr>>

connVars == <<net, tstate, rcvd, created, copier, bIn, bOut, fwd, delivered,
              rd, sent, werr, quit, pc, si, buf, closes, cpc>>

writeVars == <<wP, wb, wi, wpc, wrote, warr>>

\* ------------------------------------------------------------ bytes.Buffer
\* bytes.IndexByte(b, c): 0-based index of the first c in b, -1 if none
IndexByte(b, c) ==
  IF \E k \in 1..Len(b) : b[k] = c
  THEN (CHOOSE k \in 1..Len(b) : b[k] = c /\ \A j \in 1..(k-1) : b[j] # c) - 1
  ELSE -1

\* Buffer.Next(n): the slice returned and the unread part left
NextSlice(b, n) == SubSeq(b, 1, Min(n, Len(b)))
NextRest(b, n) == SubSeq(b, Min(n, Len(b)) + 1, Len(b))

\* rcvd-index of the first unread byte of bIn, minus one
InBase == Len(rcvd) - Len(bIn)

\* the rcvd-indices of the first n unread bytes of bIn
Idx(n) == [k \in 1..n |-> InBase + k]

\* A nil-buffer Read panics and ends the program; so does the copier's read
\* of a nil transport.
Crashed == rd.err = "panic" \/ copier = "panicked"

\* ------------------------------------------------------------------- Init
InitWrite ==
  /\ wP = <<>>
  /\ wb = <<>>
  /\ wi = 0
  /\ wpc = "idle"
  /\ wrote = <<>>
  /\ warr = <<>>

InitConn(streams) ==
  /\ net \in streams
  /\ tstate = "open"
  /\ rcvd = <<>>
  /\ created = FALSE
  /\ copier = "notstarted"
  /\ bIn = <<>>
  /\ bOut = <<>>
  /\ fwd = <<>>
  /\ delivered = <<>>
  /\ rd = [n |-> 0, err |-> "none"]
  /\ sent = <<>>
  /\ werr = FALSE
  /\ quit = 0
  /\ pc = "start"
  /\ si = -1
  /\ buf = <<>>
  /\ closes = 0
  /\ cpc = "idle"

Init ==
  /\ InitConn(SeqsUpTo(Core, MaxStream))
  /\ InitWrite

InitNeg ==
  /\ InitConn(NegStreams)
  /\ InitWrite

InitMix ==
  /\ InitConn(MixStreams)
  /\ InitWrite

InitOrd ==
  /\ InitConn(OrdStreams)
  /\ InitWrite

\* dial, lines 96-99, after net.Dial has failed: c.c is nil, the channel is
\* made, the pump goroutine is started and (c, err) is returned
InitDialFailed ==
  /\ net = <<>>
  /\ tstate = "none"
  /\ rcvd = <<>>
  /\ created = FALSE
  /\ copier = "notstarted"
  /\ bIn = <<>>
  /\ bOut = <<>>
  /\ fwd = <<>>
  /\ delivered = <<>>
  /\ rd = [n |-> 0, err |-> "none"]
  /\ sent = <<>>
  /\ werr = FALSE
  /\ quit = 0
  /\ pc = "start"
  /\ si = -1
  /\ buf = <<>>
  /\ closes = 0
  /\ cpc = "idle"

InitDial ==
  /\ InitConn(MixStreams) \/ InitDialFailed
  /\ InitWrite

InitW ==
  /\ InitConn({<<>>})
  /\ InitWrite

\* ---------------------------------------------------------------- copier
\* go io.Copy(c.bIn, c.c): one transport read of 1..MaxChunk bytes appended
\* to bIn
CopierRead ==
  /\ ~Crashed
  /\ copier = "running"
  /\ tstate \in {"open", "eof"}
  /\ net # <<>>
  /\ \E k \in 1..Min(MaxChunk, Len(net)) :
       /\ bIn' = bIn \o SubSeq(net, 1, k)
       /\ rcvd' = rcvd \o SubSeq(net, 1, k)
       /\ net' = SubSeq(net, k + 1, Len(net))
  /\ UNCHANGED <<tstate, created, copier, bOut, fwd, delivered, rd, sent,
                 quit, pc, si, buf, closes, cpc, werr>>
  /\ UNCHANGED writeVars

\* io.Copy returns on end of stream or on a read error; the statement
\* "go io.Copy(...)" discards what it returns
CopierExit ==
  /\ ~Crashed
  /\ copier = "running"
  /\ \/ tstate = "eof" /\ net = <<>>
     \/ tstate \in {"failed", "closed"}
  /\ copier' = "stopped"
  /\ UNCHANGED <<net, tstate, rcvd, created, bIn, bOut, fwd, delivered, rd,
                 sent, quit, pc, si, buf, closes, cpc, werr>>
  /\ UNCHANGED writeVars

\* ------------------------------------------------------------- transport
\* the peer closes its end: what it sent can still be read, then EOF
PeerClose ==
  /\ ~Crashed
  /\ tstate = "open"
  /\ tstate' = "eof"
  /\ UNCHANGED <<net, rcvd, created, copier, bIn, bOut, fwd, delivered, rd,
                 sent, quit, pc, si, buf, closes, cpc, werr>>
  /\ UNCHANGED writeVars

\* the transport fails (connection reset): unread bytes are lost
TransportFail ==
  /\ ~Crashed
  /\ tstate = "open"
  /\ tstate' = "failed"
  /\ net' = <<>>
  /\ UNCHANGED <<rcvd, created, copier, bIn, bOut, fwd, delivered, rd,
                 sent, quit, pc, si, buf, closes, cpc, werr>>
  /\ UNCHANGED writeVars

\* --------------------------------------------------------------- handlers
\* What a handler does with the slice it is given: the bytes it writes on the
\* transport (<<>> for no write) and the number of bytes it then consumes
\* from bIn with Next.
Defer == [write |-> <<>>, consume |-> 0]

\* will with the Suppress-Go-Ahead case lost: every option is refused
will_RefuseAll(b) ==
  IF Len(b) < 3 THEN Defer
  ELSE [write |-> <<255, DONT, b[3]>>, consume |-> 3]

\* conn.will: accept Suppress-Go-Ahead, refuse every other option
will(b) ==
  IF Len(b) < 3 THEN Defer
  ELSE [write |-> IF b[3] = SGA THEN <<255, DO, SGA>> ELSE <<255, DONT, b[3]>>,
        consume |-> 3]

\* dont answering with the command it received instead of WONT
dont_Echo(b) ==
  IF Len(b) < 3 THEN Defer
  ELSE [write |-> <<255, DONT, b[3]>>, consume |-> 3]

\* conn.dont: answer WONT <opt>
dont(b) ==
  IF Len(b) < 3 THEN Defer
  ELSE [write |-> <<255, WONT, b[3]>>, consume |-> 3]

\* do with the Binary-Transmission case lost: every option is refused
do_RefuseAll(b) ==
  IF Len(b) < 3 THEN Defer
  ELSE [write |-> <<255, WONT, b[3]>>, consume |-> 3]

\* conn.do: accept Binary-Transmission, refuse every other option
do(b) ==
  IF Len(b) < 3 THEN Defer
  ELSE [write |-> IF b[3] = BIN THEN <<255, WILL, BIN>> ELSE <<255, WONT, b[3]>>,
        consume |-> 3]

\* wont answering the refusal with IAC DONT opt
wont_Answer(b) ==
  IF Len(b) < 3 THEN Defer
  ELSE [write |-> <<255, DONT, b[3]>>, consume |-> 3]

\* conn.wont: consume without an answer
wont(b) ==
  IF Len(b) < 3 THEN Defer
  ELSE [write |-> <<>>, consume |-> 3]

\* conn.parseCommand: switch on buff[1]; the default case does nothing
parseCommand(b) ==
  CASE b[2] = DONT -> dont(b)
    [] b[2] = DO   -> do(b)
    [] b[2] = WONT -> wont(b)
    [] b[2] = WILL -> will(b)
    [] OTHER       -> Defer

\* ------------------------------------------------------------------- pump
\* process(), lines 112-116: create the two buffers, start the copier
PumpStart ==
  /\ ~Crashed
  /\ pc = "start"
  /\ created' = TRUE
  /\ copier' = "running"
  /\ pc' = "scan"
  /\ UNCHANGED <<net, tstate, rcvd, bIn, bOut, fwd, delivered, rd, sent,
                 quit, si, buf, closes, cpc, werr>>
  /\ UNCHANGED writeVars

\* lines 120-122: b := c.bIn.Bytes(); i := bytes.IndexByte(b, IAC)
PumpScan ==
  /\ ~Crashed
  /\ pc = "scan"
  /\ IF Len(bIn) > 0
     THEN /\ si' = IndexByte(bIn, IAC)
          /\ pc' = IF IndexByte(bIn, IAC) = -1 THEN "writeTo" ELSE "next"
     ELSE /\ si' = si
          /\ pc' = "select"
  /\ UNCHANGED <<net, tstate, rcvd, created, copier, bIn, bOut, fwd,
                 delivered, rd, sent, quit, buf, closes, cpc, werr>>
  /\ UNCHANGED writeVars

\* line 123: c.bIn.WriteTo(c.bOut) moves whatever bIn holds now; i goes out
\* of scope
PumpWriteTo ==
  /\ ~Crashed
  /\ pc = "writeTo"
  /\ bOut' = bOut \o bIn
  /\ fwd' = fwd \o Idx(Len(bIn))
  /\ bIn' = <<>>
  /\ si' = -1
  /\ pc' = "select"
  /\ UNCHANGED <<net, tstate, rcvd, created, copier, delivered, rd, sent,
                 quit, buf, closes, cpc, werr>>
  /\ UNCHANGED writeVars

\* line 127: c.bOut.Write(c.bIn.Next(i))
PumpNext ==
  /\ ~Crashed
  /\ pc = "next"
  /\ bOut' = bOut \o NextSlice(bIn, si)
  /\ fwd' = fwd \o Idx(Min(si, Len(bIn)))
  /\ bIn' = NextRest(bIn, si)
  /\ si' = -1
  /\ pc' = "iac"
  /\ UNCHANGED <<net, tstate, rcvd, created, copier, delivered, rd, sent,
                 quit, buf, closes, cpc, werr>>
  /\ UNCHANGED writeVars

\* processIAC, lines 151-162, and the dispatch of parseCommand and of the
\* handler's length test: return on a single byte, go on to the escaped-255
\* branch, or hand the slice b to the handler of b[1]
PumpIAC ==
  /\ ~Crashed
  /\ pc = "iac"
  /\ IF Len(bIn) <= 1
     THEN /\ pc' = "select"
          /\ buf' = buf
     ELSE IF bIn[1] = 255 /\ bIn[2] = 255
     THEN /\ pc' = "esc1"
          /\ buf' = buf
     ELSE /\ buf' = SubSeq(bIn, 1, Min(3, Len(bIn)))
          /\ pc' = IF parseCommand(bIn).write # <<>> THEN "respond"
                   ELSE IF parseCommand(bIn).consume > 0 THEN "consume"
                   ELSE "select"
  /\ UNCHANGED <<net, tstate, rcvd, created, copier, bIn, bOut, fwd,
                 delivered, rd, sent, quit, si, closes, cpc, werr>>
  /\ UNCHANGED writeVars

\* line 158: c.bOut.Write(c.bIn.Next(1))
PumpEsc1 ==
  /\ ~Crashed
  /\ pc = "esc1"
  /\ bOut' = bOut \o NextSlice(bIn, 1)
  /\ fwd' = fwd \o Idx(Min(1, Len(bIn)))
  /\ bIn' = NextRest(bIn, 1)
  /\ pc' = "esc2"
  /\ UNCHANGED <<net, tstate, rcvd, created, copier, delivered, rd, sent,
                 quit, si, buf, closes, cpc, werr>>
  /\ UNCHANGED writeVars

\* the second removal taking the byte after the pair as well
PumpEsc2_TakeTwo ==
  /\ ~Crashed
  /\ pc = "esc2"
  /\ bIn' = NextRest(bIn, 2)
  /\ pc' = "select"
  /\ UNCHANGED <<net, tstate, rcvd, created, copier, bOut, fwd, delivered,
                 rd, sent, quit, si, buf, closes, cpc, werr>>
  /\ UNCHANGED writeVars

\* line 159: _ = c.bIn.Next(1)
PumpEsc2 ==
  /\ ~Crashed
  /\ pc = "esc2"
  /\ bIn' = NextRest(bIn, 1)
  /\ pc' = "select"
  /\ UNCHANGED <<net, tstate, rcvd, created, copier, bOut, fwd, delivered,
                 rd, sent, quit, si, buf, closes, cpc, werr>>
  /\ UNCHANGED writeVars

\* the handler's c.c.Write(...) (lines 202, 204, 218, 233, 236); the write
\* returns an error on a transport that has failed or is closed, and what
\* it returns is ignored
PumpRespond ==
  /\ ~Crashed
  /\ pc = "respond"
  /\ sent' = Append(sent, parseCommand(buf).write)
  /\ werr' = (werr \/ tstate \in {"failed", "closed"})
  /\ pc' = "consume"
  /\ UNCHANGED <<net, tstate, rcvd, created, copier, bIn, bOut, fwd,
                 delivered, rd, quit, si, buf, closes, cpc>>
  /\ UNCHANGED writeVars

\* the handler's c.bIn.Next(3) (lines 207, 220, 239, 250); the handler returns
\* and its slice goes out of scope
PumpConsume ==
  /\ ~Crashed
  /\ pc = "consume"
  /\ bIn' = NextRest(bIn, parseCommand(buf).consume)
  /\ buf' = <<>>
  /\ pc' = "select"
  /\ UNCHANGED <<net, tstate, rcvd, created, copier, bOut, fwd, delivered,
                 rd, sent, quit, si, closes, cpc, werr>>
  /\ UNCHANGED writeVars

\* lines 132-134: case <-c.quit: return
PumpQuit ==
  /\ ~Crashed
  /\ pc = "select"
  /\ quit > 0
  /\ quit' = quit - 1
  /\ pc' = "done"
  /\ UNCHANGED <<net, tstate, rcvd, created, copier, bIn, bOut, fwd,
                 delivered, rd, sent, si, buf, closes, cpc, werr>>
  /\ UNCHANGED writeVars

\* the select taking its default case although a signal is waiting
PumpLoop_IgnoreQuit ==
  /\ ~Crashed
  /\ pc = "select"
  /\ pc' = "scan"
  /\ UNCHANGED <<net, tstate, rcvd, created, copier, bIn, bOut, fwd,
                 delivered, rd, sent, quit, si, buf, closes, cpc, werr>>
  /\ UNCHANGED writeVars

\* lines 135-142: default: break; sleep when bIn is empty; loop
PumpLoop ==
  /\ ~Crashed
  /\ pc = "select"
  /\ quit = 0
  /\ pc' = "scan"
  /\ UNCHANGED <<net, tstate, rcvd, created, copier, bIn, bOut, fwd,
                 delivered, rd, sent, quit, si, buf, closes, cpc, werr>>
  /\ UNCHANGED writeVars

\* ------------------------------------------------------------ application
\* conn.Read, line 105: c.bOut.Read(b) with len(b) = n >= 1.  An empty buffer
\* returns (0, io.EOF); a nil buffer (process() has not run yet) panics.
Read(n) ==
  /\ ~Crashed
  /\ IF ~created
     THEN /\ rd' = [n |-> 0, err |-> "panic"]
          /\ UNCHANGED <<bOut, delivered>>
     ELSE IF bOut = <<>>
     THEN /\ rd' = [n |-> 0, err |-> "EOF"]
          /\ UNCHANGED <<bOut, delivered>>
     ELSE /\ rd' = [n |-> Min(n, Len(bOut)), err |-> "nil"]
          /\ delivered' = delivered \o SubSeq(bOut, 1, Min(n, Len(bOut)))
          /\ bOut' = SubSeq(bOut, Min(n, Len(bOut)) + 1, Len(bOut))
  /\ UNCHANGED <<net, tstate, rcvd, created, copier, bIn, fwd, sent, quit,
                 pc, si, buf, closes, cpc, werr>>
  /\ UNCHANGED writeVars

\* the application calls conn.Close (line 273)
CloseCall ==
  /\ ~Crashed
  /\ cpc = "idle"
  /\ closes < MaxCloses
  /\ closes' = closes + 1
  /\ cpc' = "signal"
  /\ UNCHANGED <<net, tstate, rcvd, created, copier, bIn, bOut, fwd,
                 delivered, rd, sent, quit, pc, si, buf, werr>>
  /\ UNCHANGED writeVars

\* conn.Close, line 274: c.quit <- true blocks while the channel is full
CloseSignal ==
  /\ ~Crashed
  /\ cpc = "signal"
  /\ quit = 0
  /\ quit' = 1
  /\ cpc' = "closing"
  /\ UNCHANGED <<net, tstate, rcvd, created, copier, bIn, bOut, fwd,
                 delivered, rd, sent, pc, si, buf, closes, werr>>
  /\ UNCHANGED writeVars

\* conn.Close, line 275: c.c.Close()
CloseTransport ==
  /\ ~Crashed
  /\ cpc = "closing"
  /\ tstate' = "closed"
  /\ net' = <<>>
  /\ cpc' = "idle"
  /\ UNCHANGED <<rcvd, created, copier, bIn, bOut, fwd, delivered, rd, sent,
                 quit, pc, si, buf, closes, werr>>
  /\ UNCHANGED writeVars

Next ==
  \/ CopierRead
  \/ CopierExit
  \/ PeerClose
  \/ TransportFail
  \/ PumpStart
  \/ PumpScan
  \/ PumpWriteTo
  \/ PumpNext
  \/ PumpIAC
  \/ PumpEsc1
  \/ PumpEsc2
  \/ PumpRespond
  \/ PumpConsume
  \/ PumpQuit
  \/ PumpLoop
  \/ \E n \in 1..MaxDest : Read(n)
  \/ CloseCall
  \/ CloseSignal
  \/ CloseTransport

Spec == Init /\ [][Next]_vars

SpecNeg == InitNeg /\ [][Next]_vars

SpecMix == InitMix /\ [][Next]_vars

SpecOrd == InitOrd /\ [][Next]_vars

\* ------------------------------------------------------------ failed dial
\* io.Copy(c.bIn, c.c) with a nil c.c: the first Read on the nil interface
\* panics and ends the program
CopierNil ==
  /\ ~Crashed
  /\ copier = "running"
  /\ tstate = "none"
  /\ copier' = "panicked"
  /\ UNCHANGED <<net, tstate, rcvd, created, bIn, bOut, fwd, delivered, rd,
                 sent, quit, pc, si, buf, closes, cpc, werr>>
  /\ UNCHANGED writeVars

\* a step of a connection whose transport was established
DialedStep == tstate # "none" /\ Next

\* After a failed dial the caller has the error and leaves the connection
\* alone; what goes on is the goroutine started at line 98.
FailedDialPump == tstate = "none" /\ (PumpStart \/ PumpScan \/ PumpLoop)

NextDial ==
  \/ DialedStep
  \/ FailedDialPump
  \/ CopierNil

SpecDial == InitDial /\ [][NextDial]_vars

\* ------------------------------------------------- overlapping buffer calls
\* SpecRace: the calls on bOut have a beginning and an end.  Nothing orders
\* the pump's c.bOut.Write / c.bIn.WriteTo(c.bOut) (lines 123, 127, 158)
\* and the application's c.bOut.Read (line 105); two of them that overlap
\* are a data race on the fields of the bytes.Buffer.

\* the pump is inside a call that writes to bOut
OutWriting == pc \in {"writeTo_in", "next_in", "esc1_in"}

\* the application is inside c.bOut.Read
OutReading == rd.err \in {"busy", "raced"}

\* lines 123, 127, 158: the pump enters the call that writes to bOut
PumpOutWriteBegin ==
  /\ ~Crashed
  /\ pc \in {"writeTo", "next", "esc1"}
  /\ pc' = CASE pc = "writeTo" -> "writeTo_in"
              [] pc = "next" -> "next_in"
              [] OTHER -> "esc1_in"
  /\ rd' = IF rd.err = "busy" THEN [rd EXCEPT !.err = "raced"] ELSE rd
  /\ UNCHANGED <<net, tstate, rcvd, created, copier, bIn, bOut, fwd,
                 delivered, sent, quit, si, buf, closes, cpc, werr>>
  /\ UNCHANGED writeVars

\* lines 123, 127, 158: the call moves the bytes from bIn to bOut and returns
PumpOutWriteEnd ==
  /\ ~Crashed
  /\ OutWriting
  /\ LET n == CASE pc = "writeTo_in" -> Len(bIn)
                [] pc = "next_in" -> si
                [] OTHER -> 1
     IN  /\ bOut' = bOut \o NextSlice(bIn, n)
         /\ fwd' = fwd \o Idx(Min(n, Len(bIn)))
         /\ bIn' = NextRest(bIn, n)
  /\ si' = IF pc = "esc1_in" THEN si ELSE -1
  /\ pc' = CASE pc = "writeTo_in" -> "select"
              [] pc = "next_in" -> "iac"
              [] OTHER -> "esc2"
  /\ UNCHANGED <<net, tstate, rcvd, created, copier, delivered, rd, sent,
                 quit, buf, closes, cpc, werr>>
  /\ UNCHANGED writeVars

\* line 105: the application enters c.bOut.Read(b), len(b) = n >= 1, and
\* Read tests the buffer for emptiness (rd.n = 0: found empty); a nil buffer
\* panics
ReadBegin(n) ==
  /\ ~Crashed
  /\ ~OutReading
  /\ rd' = IF ~created THEN [n |-> 0, err |-> "panic"]
           ELSE [n |-> IF bOut = <<>> THEN 0 ELSE n,
                 err |-> IF OutWriting THEN "raced" ELSE "busy"]
  /\ UNCHANGED <<net, tstate, rcvd, created, copier, bIn, bOut, fwd,
                 delivered, sent, quit, pc, si, buf, closes, cpc, werr>>
  /\ UNCHANGED writeVars

\* line 105: c.bOut.Read returns.  A call that did not overlap a write of
\* the pump returns as bytes.Buffer.Read does.  A call that did, and whose
\* emptiness test has passed, reads the fields off and buf while the pump
\* is changing them: besides the regular result it can find buf[off:] empty
\* and return (0, nil), or find off beyond len(buf) and panic.
ReadEnd ==
  /\ ~Crashed
  /\ OutReading
  /\ \/ IF rd.n = 0
        THEN /\ rd' = [n |-> 0, err |-> "EOF"]
             /\ UNCHANGED <<bOut, delivered>>
        ELSE /\ rd' = [n |-> Min(rd.n, Len(bOut)), err |-> "nil"]
             /\ delivered' = delivered \o SubSeq(bOut, 1, Min(rd.n, Len(bOut)))
             /\ bOut' = SubSeq(bOut, Min(rd.n, Len(bOut)) + 1, Len(bOut))
     \/ /\ rd.err = "raced"
        /\ rd.n > 0
        /\ rd' \in {[n |-> 0, err |-> "nil"], [n |-> 0, err |-> "panic"]}
        /\ UNCHANGED <<bOut, delivered>>
  /\ UNCHANGED <<net, tstate, rcvd, created, copier, bIn, fwd, sent, quit,
                 pc, si, buf, closes, cpc, werr>>
  /\ UNCHANGED writeVars

NextRace ==
  \/ CopierRead
  \/ CopierExit
  \/ PeerClose
  \/ TransportFail
  \/ PumpStart
  \/ PumpScan
  \/ PumpOutWriteBegin
  \/ PumpOutWriteEnd
  \/ PumpIAC
  \/ PumpEsc2
  \/ PumpRespond
  \/ PumpConsume
  \/ PumpQuit
  \/ PumpLoop
  \/ \E n \in 1..MaxDest : ReadBegin(n)
  \/ ReadEnd
  \/ CloseCall
  \/ CloseSignal
  \/ CloseTransport

SpecRace == InitMix /\ [][NextRace]_vars

\* ------------------------------------------------------------------ Write
\* conn.Write, lines 260-262, at 0-based index i:
\*   b = append(b, 0); copy(b[i+1:], b[i:]); b[i] = byte(255)
EscapeAt(b, i) ==
  LET a == Append(b, 0)
      c == [k \in 1..Len(a) |-> IF k >= i + 2 THEN a[k - 1] ELSE a[k]]
  IN  [c EXCEPT ![i + 1] = 255]

\* the application calls Write(P) with a slice of some spare capacity, the
\* spare bytes being 0: line 257, i := 0
WriteCall(P) ==
  /\ wpc = "idle"
  /\ wP' = P
  /\ wb' = P
  /\ wi' = 0
  /\ wpc' = "loop"
  /\ \E c \in 0..MaxSpare : warr' = P \o [k \in 1..c |-> 0]
  /\ UNCHANGED wrote
  /\ UNCHANGED connVars

\* lines 257-264: one iteration of the loop, i < len(b).  append (line 260)
\* extends b in the caller's array while that has room (len(b) < cap(b)) and
\* moves b to a new array otherwise; from then on len(b) is above the
\* capacity of the caller's array.
WriteLoop ==
  /\ wpc = "loop"
  /\ wi < Len(wb)
  /\ IF wb[wi + 1] = IAC
     THEN /\ Len(wb) < MaxSliceLen
          /\ wb' = EscapeAt(wb, wi)
          /\ warr' = IF Len(wb) < Len(warr)
                     THEN EscapeAt(wb, wi)
                            \o SubSeq(warr, Len(wb) + 2, Len(warr))
                     ELSE warr
     ELSE /\ wb' = wb
          /\ warr' = warr
  /\ wi' = wi + 1
  /\ UNCHANGED <<wP, wpc, wrote>>
  /\ UNCHANGED connVars

\* line 260: append finds no memory left for a longer slice; the program ends
WriteExhaust ==
  /\ wpc = "loop"
  /\ wi < Len(wb)
  /\ wb[wi + 1] = IAC
  /\ Len(wb) >= MaxSliceLen
  /\ wpc' = "oom"
  /\ UNCHANGED <<wP, wb, wi, wrote, warr>>
  /\ UNCHANGED connVars

\* line 267: the loop has ended, i >= len(b): return c.c.Write(b)
WriteFlush ==
  /\ wpc = "loop"
  /\ wi >= Len(wb)
  /\ wrote' = Append(wrote, wb)
  /\ wpc' = "returned"
  /\ UNCHANGED <<wP, wb, wi, warr>>
  /\ UNCHANGED connVars

NextW ==
  \/ \E P \in SeqsUpTo(WriteBytes, MaxPayload) : WriteCall(P)
  \/ WriteLoop
  \/ WriteExhaust
  \/ WriteFlush

SpecW == InitW /\ [][NextW]_vars

\* ----------------------------------------------------------------- claims
IsPrefix(p, q) == Len(p) <= Len(q) /\ SubSeq(q, 1, Len(p)) = p

\* The payload of a received sequence: every complete IAC DO/DONT/WILL/WONT
\* <opt> removed, every IAC IAC collapsed to one 0xFF, every other byte kept.
\* A command still incomplete at the end is kept as it is.
RECURSIVE Payload(_)
Payload(s) ==
  IF s = <<>> THEN <<>>
  ELSE IF s[1] # IAC THEN <<s[1]>> \o Payload(Tail(s))
  ELSE IF Len(s) = 1 THEN s
  ELSE IF s[2] = IAC THEN <<IAC>> \o Payload(SubSeq(s, 3, Len(s)))
  ELSE IF s[2] \in Negotiation
       THEN IF Len(s) >= 3 THEN Payload(SubSeq(s, 4, Len(s))) ELSE s
  ELSE <<IAC>> \o Payload(Tail(s))

\* The class of every byte of a received sequence: "data", the two bytes of an
\* IAC IAC pair ("esc", "dup"), a byte of a complete command ("cmd", with or
\* without option byte), a byte of a command still incomplete ("held"), or an
\* IAC that no command code follows ("bad").
RECURSIVE Class(_)
Class(s) ==
  IF s = <<>> THEN <<>>
  ELSE IF s[1] # IAC THEN <<"data">> \o Class(Tail(s))
  ELSE IF Len(s) = 1 THEN <<"held">>
  ELSE IF s[2] = IAC THEN <<"esc", "dup">> \o Class(SubSeq(s, 3, Len(s)))
  ELSE IF s[2] \in Negotiation
       THEN IF Len(s) >= 3
            THEN <<"cmd", "cmd", "cmd">> \o Class(SubSeq(s, 4, Len(s)))
            ELSE <<"held", "held">>
  ELSE IF s[2] \in Unhandled
       THEN <<"cmd", "cmd">> \o Class(SubSeq(s, 3, Len(s)))
  ELSE <<"bad">> \o Class(Tail(s))

Forwarded == {fwd[k] : k \in 1..Len(fwd)}

\* C1: the concatenation of the bytes returned by successive Read calls is a
\* prefix of the received sequence with every complete negotiation command
\* removed and every IAC IAC pair collapsed, under every chunking and every
\* interleaving.
C1_ReadsArePayloadPrefix == IsPrefix(delivered, Payload(rcvd))

\* C2: the outbound buffer holds only payload: no byte of a command sequence
\* and no un-collapsed IAC IAC pair is ever written to it.
C2_OutboundOnlyPayload ==
  \A j \in Forwarded :
    /\ Class(rcvd)[j] # "cmd"
    /\ Class(rcvd)[j] = "dup" => (j - 1) \notin Forwarded

\* escape(P) of the specification: every 0xFF doubled, the rest in order
RECURSIVE Escape(_)
Escape(P) ==
  IF P = <<>> THEN <<>>
  ELSE IF P[1] = IAC THEN <<IAC, IAC>> \o Escape(Tail(P))
  ELSE <<P[1]>> \o Escape(Tail(P))

\* C3: when Write(P) ends, the transport has received exactly P with each
\* 0xFF doubled, in one write.
C3_WriteHandsEscaped ==
  wpc \in {"returned", "oom"} => wrote = <<Escape(wP)>>

\* C4: the escaping loop of Write ends after a bounded number of iterations
\* (no more than twice the length of the payload, every byte escaped at
\* most once), and Write then makes exactly one transport write.
C4_WriteLoopTerminates ==
  /\ wi <= 2 * Len(wP)
  /\ wpc # "oom"
  /\ wpc = "returned" => Len(wrote) = 1

\* C5: Read blocks while the outbound buffer is empty and the transport is
\* open and free of error: no Read returns in such a state.
C5_ReadBlocksWhileEmpty ==
  [][(created /\ bOut = <<>> /\ tstate = "open") => rd' = rd]_vars

\* the error a transport in state t reports to its reader
TransportError(t) ==
  CASE t = "eof" -> "EOF"
    [] t = "failed" -> "reset"
    [] t = "closed" -> "closed"
    [] OTHER -> "nil"

\* C6: once the transport is closed or has failed and nothing received is
\* left to deliver, a Read that returns reports that transport error.
C6_ReadReportsTransportError ==
  [][(/\ created
      /\ tstate # "open"
      /\ copier = "stopped"
      /\ bIn = <<>>
      /\ bOut = <<>>
      /\ rd' # rd) => rd'.err = TransportError(tstate)]_vars

\* C7: an IAC followed by a command byte that has no handler is dropped: when
\* processIAC returns to the loop of the pump, the two bytes have left the
\* head of the inbound buffer and nothing was written to the outbound buffer.
C7_UnhandledCommandDropped ==
  [][(/\ pc = "iac"
      /\ pc' = "select"
      /\ Len(bIn) >= 2
      /\ bIn[1] = IAC
      /\ bIn[2] \in Unhandled)
     => (bIn' = SubSeq(bIn, 3, Len(bIn)) /\ bOut' = bOut)]_vars

\* C8: a complete IAC DO opt at the head of the inbound buffer is handed to
\* the handler, which makes exactly one transport write, IAC WILL opt for
\* Binary-Transmission and IAC WONT opt otherwise, and then consumes exactly
\* these three bytes; none of them is written to the outbound buffer.
C8_DoAnswered ==
  [][/\ (pc = "iac" /\ pc' # pc /\ Len(bIn) >= 3 /\ bIn[1] = IAC /\ bIn[2] = DO)
        => (pc' = "respond" /\ buf' = SubSeq(bIn, 1, 3)
            /\ sent' = sent /\ bIn' = bIn)
     /\ (pc = "respond" /\ pc' # pc /\ buf[2] = DO)
        => (/\ sent' = Append(sent, IF buf[3] = 0 THEN <<255, 251, 0>>
                                    ELSE <<255, 252, buf[3]>>)
            /\ pc' = "consume" /\ bIn' = bIn)
     /\ (pc = "consume" /\ pc' # pc /\ buf[2] = DO)
        => (/\ SubSeq(bIn, 1, 3) = buf
            /\ bIn' = SubSeq(bIn, 4, Len(bIn))
            /\ sent' = sent /\ pc' = "select")
     /\ (pc \in {"respond", "consume"} /\ pc' = pc /\ buf[2] = DO)
        => sent' = sent
     /\ (Len(bIn) >= 3 /\ bIn[1] = IAC /\ bIn[2] = DO) => fwd' = fwd
    ]_vars

C8_Witness ==
  /\ rcvd = <<255, 253, 0>>
  /\ bIn = <<>>
  /\ pc = "select"
  /\ sent = << <<255, 251, 0>> >>

\* C9: a complete IAC WILL opt at the head of the inbound buffer is handed to
\* the handler, which makes exactly one transport write, IAC DO opt for
\* Suppress-Go-Ahead and IAC DONT opt otherwise, and then consumes exactly
\* these three bytes; none of them is written to the outbound buffer.
C9_WillAnswered ==
  [][/\ (pc = "iac" /\ pc' # pc /\ Len(bIn) >= 3 /\ bIn[1] = IAC /\ bIn[2] = WILL)
        => (pc' = "respond" /\ buf' = SubSeq(bIn, 1, 3)
            /\ sent' = sent /\ bIn' = bIn)
     /\ (pc = "respond" /\ pc' # pc /\ buf[2] = WILL)
        => (/\ sent' = Append(sent, IF buf[3] = 3 THEN <<255, 253, 3>>
                                    ELSE <<255, 254, buf[3]>>)
            /\ pc' = "consume" /\ bIn' = bIn)
     /\ (pc = "consume" /\ pc' # pc /\ buf[2] = WILL)
        => (/\ SubSeq(bIn, 1, 3) = buf
            /\ bIn' = SubSeq(bIn, 4, Len(bIn))
            /\ sent' = sent /\ pc' = "select")
     /\ (pc \in {"respond", "consume"} /\ pc' = pc /\ buf[2] = WILL)
        => sent' = sent
     /\ (Len(bIn) >= 3 /\ bIn[1] = IAC /\ bIn[2] = WILL) => fwd' = fwd
    ]_vars

C9_Witness ==
  /\ rcvd = <<255, 251, 3>>
  /\ bIn = <<>>
  /\ pc = "select"
  /\ sent = << <<255, 253, 3>> >>

\* C10: a complete IAC DONT opt at the head of the inbound buffer is handed
\* to the handler, which for every option makes exactly one transport write,
\* IAC WONT opt, and then consumes exactly these three bytes; none of them is
\* written to the outbound buffer.
C10_DontAnswered ==
  [][/\ (pc = "iac" /\ pc' # pc /\ Len(bIn) >= 3 /\ bIn[1] = IAC /\ bIn[2] = DONT)
        => (pc' = "respond" /\ buf' = SubSeq(bIn, 1, 3)
            /\ sent' = sent /\ bIn' = bIn)
     /\ (pc = "respond" /\ pc' # pc /\ buf[2] = DONT)
        => (/\ sent' = Append(sent, <<255, 252, buf[3]>>)
            /\ pc' = "consume" /\ bIn' = bIn)
     /\ (pc = "consume" /\ pc' # pc /\ buf[2] = DONT)
        => (/\ SubSeq(bIn, 1, 3) = buf
            /\ bIn' = SubSeq(bIn, 4, Len(bIn))
            /\ sent' = sent /\ pc' = "select")
     /\ (pc \in {"respond", "consume"} /\ pc' = pc /\ buf[2] = DONT)
        => sent' = sent
     /\ (Len(bIn) >= 3 /\ bIn[1] = IAC /\ bIn[2] = DONT) => fwd' = fwd
    ]_vars

C10_Witness ==
  /\ rcvd = <<255, 254, 0>>
  /\ bIn = <<>>
  /\ pc = "select"
  /\ sent = << <<255, 252, 0>> >>

\* C11: a complete IAC WONT opt at the head of the inbound buffer is handed
\* to the handler, which writes nothing on the transport and nothing to the
\* outbound buffer and consumes exactly these three bytes.
C11_WontSilent ==
  [][/\ (pc = "iac" /\ pc' # pc /\ Len(bIn) >= 3 /\ bIn[1] = IAC /\ bIn[2] = WONT)
        => (pc' = "consume" /\ buf' = SubSeq(bIn, 1, 3)
            /\ sent' = sent /\ bIn' = bIn)
     /\ (pc = "consume" /\ pc' # pc /\ buf[2] = WONT)
        => (/\ SubSeq(bIn, 1, 3) = buf
            /\ bIn' = SubSeq(bIn, 4, Len(bIn))
            /\ sent' = sent /\ pc' = "select")
     /\ (pc = "consume" /\ pc' = pc /\ buf[2] = WONT)
        => sent' = sent
     /\ (Len(bIn) >= 3 /\ bIn[1] = IAC /\ bIn[2] = WONT)
        => (fwd' = fwd /\ sent' = sent)
    ]_vars

C11_Witness ==
  /\ rcvd = <<255, 252, 1>>
  /\ bIn = <<>>
  /\ pc = "select"
  /\ sent = <<>>
  /\ fwd = <<>>

\* C12: with IAC IAC at the head of the inbound buffer, processIAC appends
\* exactly one 0xFF to the outbound buffer, removes exactly these two bytes
\* from the inbound buffer and writes nothing on the transport; every byte
\* behind the pair stays in the inbound buffer.
C12_EscapedIAC ==
  [][/\ (pc = "iac" /\ pc' # pc /\ Len(bIn) >= 2 /\ bIn[1] = IAC /\ bIn[2] = IAC)
        => (pc' = "esc1" /\ bIn' = bIn /\ fwd' = fwd /\ sent' = sent)
     /\ (pc = "esc1" /\ pc' # pc)
        => (/\ Len(bIn) >= 2 /\ bIn[1] = IAC /\ bIn[2] = IAC
            /\ bOut' = Append(bOut, 255)
            /\ fwd' = Append(fwd, InBase + 1)
            /\ bIn' = Tail(bIn)
            /\ sent' = sent /\ pc' = "esc2")
     /\ (pc = "esc2" /\ pc' # pc)
        => (/\ Len(bIn) >= 1 /\ bIn[1] = IAC
            /\ bIn' = Tail(bIn)
            /\ fwd' = fwd /\ sent' = sent /\ pc' = "select")
     /\ (pc \in {"esc1", "esc2"} /\ pc' = pc)
        => (sent' = sent /\ fwd' = fwd /\ IsPrefix(bIn, bIn'))
    ]_vars

\* IAC IAC 1 has been delivered to the application as 0xFF 1
C12_Witness ==
  /\ rcvd = <<255, 255, 1>>
  /\ delivered = <<255, 1>>
  /\ bIn = <<>>
  /\ sent = <<>>

\* the last byte received is a sentinel that starts a new unit
LoneSentinel ==
  /\ Len(rcvd) >= 1
  /\ rcvd[Len(rcvd)] = IAC
  /\ Class(rcvd)[Len(rcvd)] = "held"

\* C13: a 0xFF that is the last byte available, with nothing after it yet,
\* is never forwarded to the outbound buffer: it is still the last byte of
\* the inbound buffer.
C13_LoneSentinelHeld ==
  LoneSentinel =>
    (/\ Len(rcvd) \notin Forwarded
     /\ bIn # <<>>
     /\ bIn[Len(bIn)] = IAC)

\* a negotiation command starts at index j of the received sequence
NegStart(j) ==
  /\ j + 1 <= Len(rcvd)
  /\ rcvd[j] = IAC
  /\ rcvd[j + 1] \in Negotiation
  /\ Class(rcvd)[j] \in {"cmd", "held"}

\* C14: while only IAC and a DO/DONT/WILL/WONT byte are in the inbound
\* buffer the handler changes neither buffer and writes nothing on the
\* transport, and a step that removes a byte of a negotiation command from
\* the inbound buffer removes exactly the three bytes of that command and
\* writes none of them to the outbound buffer.
C14_NoPartialConsume ==
  [][/\ (pc = "iac" /\ pc' # pc /\ Len(bIn) = 2 /\ bIn[1] = IAC
            /\ bIn[2] \in Negotiation)
        => (pc' = "select" /\ bIn' = bIn /\ fwd' = fwd /\ sent' = sent)
     /\ \A j \in 1..Len(rcvd) :
          (NegStart(j) /\ InBase <= j + 1 /\ InBase' >= j)
            => (InBase = j - 1 /\ InBase' = j + 2 /\ fwd' = fwd)
    ]_vars

\* C15: when the pump is about to write the response to a command on the
\* transport, every payload byte received before that command has been
\* written to the outbound buffer.
C15_PayloadBeforeResponse ==
  pc = "respond" =>
    \A j \in 1..InBase :
      Class(rcvd)[j] \in {"data", "esc"} => j \in Forwarded

\* C16: a pump that reaches its select while a quit signal is waiting takes
\* the signal and terminates instead of starting another iteration; only
\* that step takes a signal out of the channel, and it takes one; a pump
\* that has terminated stays terminated, removes nothing from the inbound
\* buffer, writes nothing to the outbound buffer and nothing on the
\* transport.
C16_QuitStopsPump ==
  [][/\ (pc = "select" /\ quit > 0 /\ pc' # pc)
        => (pc' = "done" /\ quit' = quit - 1)
     /\ (quit' < quit)
        => (pc = "select" /\ pc' = "done" /\ quit' = quit - 1)
     /\ (pc' = "done" /\ pc # "done")
        => (pc = "select" /\ quit = 1 /\ quit' = 0 /\ bIn' = bIn
            /\ fwd' = fwd /\ sent' = sent)
     /\ (pc = "done")
        => (pc' = "done" /\ IsPrefix(bIn, bIn') /\ fwd' = fwd /\ sent' = sent)
    ]_vars

\* the pump has terminated on the signal with half a command in bIn
C16_Witness ==
  /\ pc = "done"
  /\ quit = 0
  /\ closes = 1
  /\ bIn = <<255, 253>>

\* C17: a Close call never blocks at its send on the quit channel: the
\* channel has room, or at least the pump is still running and will take
\* the waiting signal.
C17_CloseNeverBlocks ==
  cpc = "signal" => (quit = 0 \/ pc # "done")

\* the error that ended the copier's read of the transport, for as long as
\* Close has not replaced the state of the transport ("nil": none)
CopierError ==
  IF copier = "stopped" /\ tstate \in {"eof", "failed"}
  THEN TransportError(tstate)
  ELSE "nil"

\* C18: once the read side of the transport has ended with an error, every
\* Read that finds the outbound buffer empty returns that same error,
\* whatever is still in the inbound buffer and however many Reads came
\* before.
C18_StickyError ==
  [][(/\ created
      /\ CopierError # "nil"
      /\ bOut = <<>>
      /\ rd' # rd) => rd'.err = CopierError]_vars

\* C19: the pump terminates only by taking a quit signal, and after a read
\* error of the transport, with no Close called, Read reports an error only
\* when no payload byte is waiting at the head of the inbound buffer for the
\* pump to forward.
C19_PayloadBeforeError ==
  [][/\ (pc' = "done" /\ pc # "done") => (quit = 1 /\ quit' = 0)
     /\ (/\ created
         /\ copier = "stopped"
         /\ tstate \in {"eof", "failed"}
         /\ closes = 0
         /\ rd' # rd
         /\ rd'.err # "nil") => (bIn = <<>> \/ bIn[1] = IAC)
    ]_vars

\* What the pump delivers of a received sequence s that is in bIn as a
\* whole, with nothing running beside it: the loop of process() (lines
\* 120-129) and processIAC (lines 149-162).  A sentinel that processIAC
\* leaves at the head of bIn ends the delivery.
RECURSIVE Unescape(_)
Unescape(s) ==
  IF s = <<>> THEN <<>>
  ELSE IF IndexByte(s, IAC) = -1 THEN s
  ELSE IF IndexByte(s, IAC) > 0
       THEN NextSlice(s, IndexByte(s, IAC))
              \o Unescape(NextRest(s, IndexByte(s, IAC)))
  ELSE IF Len(s) <= 1 THEN <<>>
  ELSE IF s[1] = 255 /\ s[2] = 255
       THEN NextSlice(s, 1) \o Unescape(NextRest(NextRest(s, 1), 1))
  ELSE IF parseCommand(s).consume > 0
       THEN Unescape(NextRest(s, parseCommand(s).consume))
  ELSE <<>>

\* number of 0xFF bytes in P
CountIAC(P) == Cardinality({k \in 1..Len(P) : P[k] = IAC})

\* C20: when Write(P) ends, the bytes it has put on the transport, received
\* by a connection, are delivered as exactly P, and they are len(P) + k
\* bytes for the k bytes 0xFF of P.
C20_RoundTrip ==
  wpc \in {"returned", "oom"} =>
    (/\ Len(wrote) = 1
     /\ Unescape(wrote[1]) = wP
     /\ Len(wrote[1]) = Len(wP) + CountIAC(wP))

\* the n that Write returns: what c.c.Write(b) returned at line 267, the
\* length of the slice the transport took (-1: Write has not returned)
WriteN == IF wpc = "returned" THEN Len(wrote[Len(wrote)]) ELSE -1

C22_ReadNeverZeroNil ==
  ~(rd.n = 0 /\ rd.err = "nil")

\* C23: the pump is never inside a call that writes to the outbound buffer
\* while the application is inside the call that reads from it.
C23_OutboundExclusive ==
  ~(OutWriting /\ OutReading)

\* C24: between the scan of the inbound buffer and the step that forwards
\* what was scanned, nothing but the pump changes the inbound buffer, and no
\* Read changes it.
C24_InboundOwnedByPump ==
  [][/\ (pc \in {"writeTo", "next"} /\ pc' = pc) => bIn' = bIn
     /\ (rd' # rd) => bIn' = bIn
    ]_vars

\* C25: every Read and every pump step that uses a buffer finds the buffers
\* created.
C25_BuffersExist ==
  [][/\ (rd' # rd) => created
     /\ (pc # "start" /\ pc' # pc) => created
    ]_vars

\* the answers the handlers give to the complete DO/DONT/WILL/WONT commands
\* of a received sequence, in the order of the commands
RECURSIVE Responses(_)
Responses(s) ==
  IF s = <<>> THEN <<>>
  ELSE IF s[1] # IAC THEN Responses(Tail(s))
  ELSE IF Len(s) = 1 THEN <<>>
  ELSE IF s[2] = IAC THEN Responses(SubSeq(s, 3, Len(s)))
  ELSE IF s[2] \in Negotiation
       THEN IF Len(s) < 3 THEN <<>>
            ELSE (IF parseCommand(SubSeq(s, 1, 3)).write = <<>> THEN <<>>
                  ELSE <<parseCommand(SubSeq(s, 1, 3)).write>>)
                 \o Responses(SubSeq(s, 4, Len(s)))
  ELSE IF s[2] \in Unhandled THEN Responses(SubSeq(s, 3, Len(s)))
  ELSE Responses(Tail(s))

\* C26: the writes the pump has made on the transport are the answers to the
\* complete DO, DONT and WILL commands received, in their order, each once
\* and nothing else; once the inbound buffer is empty every such command
\* has its answer.
C26_ResponsesMatchCommands ==
  /\ IsPrefix(sent, Responses(rcvd))
  /\ bIn = <<>> => sent = Responses(rcvd)

\* s consists of payload bytes, IAC IAC pairs and complete DO/DONT/WILL/WONT
\* commands only
RECURSIVE WellFormed(_)
WellFormed(s) ==
  IF s = <<>> THEN TRUE
  ELSE IF s[1] # IAC THEN WellFormed(Tail(s))
  ELSE IF Len(s) = 1 THEN FALSE
  ELSE IF s[2] = IAC THEN WellFormed(SubSeq(s, 3, Len(s)))
  ELSE IF s[2] \in Negotiation /\ Len(s) >= 3
       THEN WellFormed(SubSeq(s, 4, Len(s)))
  ELSE FALSE

\* C27: when the whole of such a stream has been received and Close has not
\* been called, the pump is never left holding a sentinel for bytes that
\* will not come: in processIAC the head of the inbound buffer is a
\* complete IAC IAC or a complete command, which the pump removes.
C27_PumpDrains ==
  (WellFormed(rcvd) /\ net = <<>> /\ closes = 0 /\ pc = "iac")
    => (/\ Len(bIn) >= 2
        /\ \/ bIn[2] = IAC
           \/ bIn[2] \in Negotiation /\ Len(bIn) >= 3)

\* C28: once the transport write of a response has failed, a Read that
\* finds the outbound buffer empty returns an error of the transport.
C28_WriteFailureReported ==
  [][(/\ werr
      /\ created
      /\ bOut = <<>>
      /\ rd' # rd) => rd'.err \in {"reset", "closed"}]_vars

\* C29: when establishing the transport has failed, no pump and no task
\* reading the transport runs on the connection.
C29_NoPumpAfterFailedDial ==
  tstate = "none" => (pc = "start" /\ copier = "notstarted" /\ ~created)

\* C30: during and after Write(b) the caller's backing array holds the
\* bytes it held at the call: the payload and, behind it, the spare bytes.
C30_CallerDataUnchanged ==
  wpc # "idle" => warr = wP \o [k \in 1..(Len(warr) - Len(wP)) |-> 0]

====
